---- MODULE Spec2Model ----
(***************************************************************************)
(* Model of src/app.py: the record/stop toggle backed by a capture thread  *)
(* (record_audio, start_recording, stop_recording) and the two processing  *)
(* handlers (process_audio, process_text).                                 *)
(*                                                                         *)
(* Python strings are modelled as sequences of tokens, "" being <<>>, so   *)
(* that concatenation is \o and startswith is a test on the first token.   *)
(***************************************************************************)
EXTENDS Integers, Sequences, FiniteSets, TLC

VARIABLES
    recording_state,  \* the module-level dict of line 17
    wpc,              \* position of every record_audio thread
    lists,            \* the heap of Python list objects holding chunks
    files,            \* the temporary .wav files on disk
    mpc,              \* position of the UI thread inside stop_recording
    started,          \* number of threads start_recording has created
    phase,            \* "Idle" / "Recording", as the UI toggle sees it
    stop_idle,        \* was the running/last stop_recording issued while Idle
    last_result,      \* what the last recording handler returned
    stopped,          \* sessions whose stop_recording has returned
    clock,            \* time.time(), in ticks of 1/TicksPerSecond s
    last_run,         \* the last processing action: inputs and outputs
    tts_written,      \* how often each speech output path has been written
    runs              \* number of speech files written so far

rec_vars == <<recording_state, wpc, lists, files, mpc, started, phase,
              stop_idle, last_result, stopped>>
proc_vars == <<clock, last_run, tts_written, runs>>
vars == <<rec_vars, proc_vars>>

\* None in recording_state["audio_path"] / ["recording_thread"]; the list
\* object 0 is the [] of line 17
NoFile == 0
NoThread == 0

(***************************************************************************)
(* Bounds                                                                  *)
(***************************************************************************)
MaxStarts == 2     \* start_recording calls that create a thread
MaxChunks == 1     \* chunks one thread reads from the device

Workers == 1..MaxStarts

(***************************************************************************)
(* Audio parameters (lines 20-23) and the size of a written .wav file      *)
(***************************************************************************)
CHANNELS == 1
CHUNK == 1024
SampleWidth == 2
WavHeaderBytes == 44

ChunkBytes == CHUNK * CHANNELS * SampleWidth

\* os.path.getsize of a recording file: NamedTemporaryFile leaves it empty,
\* wave.open(...,'wb') ... writeframes leaves a header plus the frames.
FileSize(f) ==
    IF files[f].writes = 0 THEN 0
    ELSE WavHeaderBytes + Len(files[f].data) * ChunkBytes

\* threading.Thread.is_alive() of the thread start_recording created as w
IsAlive(w) == wpc[w] \notin {"unborn", "failed", "done"}

(***************************************************************************)
(* record_audio(filename): the thread body, one action per statement that  *)
(* touches shared state or blocks.  Thread w has filename w and its local  *)
(* variable `frames` names the list object w.                              *)
(***************************************************************************)

\* lines 34-39: PyAudio() and p.open(...) succeed
WorkerOpen(w) ==
    /\ wpc[w] = "open"
    /\ wpc' = [wpc EXCEPT ![w] = "set_frames"]
    /\ UNCHANGED <<recording_state, lists, files, mpc, started, phase,
                   stop_idle, last_result, stopped, proc_vars>>

\* lines 34-39: the device cannot be opened; the exception ends the thread
WorkerOpenFails(w) ==
    /\ wpc[w] = "open"
    /\ wpc' = [wpc EXCEPT ![w] = "failed"]
    /\ UNCHANGED <<recording_state, lists, files, mpc, started, phase,
                   stop_idle, last_result, stopped, proc_vars>>

\* lines 43-44: frames = []; recording_state["frames"] = frames
WorkerSetFrames(w) ==
    /\ wpc[w] = "set_frames"
    /\ lists' = [lists EXCEPT ![w] = <<>>]
    /\ recording_state' = [recording_state EXCEPT !.frames = w]
    /\ wpc' = [wpc EXCEPT ![w] = "set_flag"]
    /\ UNCHANGED <<files, mpc, started, phase, stop_idle, last_result,
                   stopped, proc_vars>>

\* line 45: recording_state["is_recording"] = True
WorkerSetFlag(w) ==
    /\ wpc[w] = "set_flag"
    /\ recording_state' = [recording_state EXCEPT !.is_recording = TRUE]
    /\ wpc' = [wpc EXCEPT ![w] = "check"]
    /\ UNCHANGED <<lists, files, mpc, started, phase, stop_idle,
                   last_result, stopped, proc_vars>>

\* line 48: while recording_state["is_recording"]
WorkerCheck(w) ==
    /\ wpc[w] = "check"
    /\ wpc' = [wpc EXCEPT ![w] =
                 IF recording_state.is_recording THEN "read" ELSE "save"]
    /\ UNCHANGED <<recording_state, lists, files, mpc, started, phase,
                   stop_idle, last_result, stopped, proc_vars>>

\* the list object line 50 appends to: the thread's local `frames`
AppendTarget(w) == w

\* lines 49-50: data = stream.read(CHUNK); frames.append(data).  A chunk
\* records the thread that read it and the flag's value when it was appended.
WorkerRead(w) ==
    /\ wpc[w] = "read"
    /\ Len(lists[w]) < MaxChunks
    /\ lists' = [lists EXCEPT ![AppendTarget(w)] =
                   Append(@, [by |-> w, active |-> recording_state.is_recording])]
    /\ wpc' = [wpc EXCEPT ![w] = "check"]
    /\ UNCHANGED <<recording_state, files, mpc, started, phase, stop_idle,
                   last_result, stopped, proc_vars>>

\* the list object line 64 joins and writes: the thread's local `frames`
FlushSourceShared(w) == recording_state.frames
FlushSource(w) == w

\* lines 55-67: close the stream, write the frames to `filename`, return
WorkerSave(w) ==
    /\ wpc[w] = "save"
    /\ files' = [files EXCEPT ![w] =
                   [exists |-> TRUE,
                    data |-> lists[FlushSource(w)],
                    writes |-> @.writes + 1]]
    /\ wpc' = [wpc EXCEPT ![w] = "done"]
    /\ UNCHANGED <<recording_state, lists, mpc, started, phase, stop_idle,
                   last_result, stopped, proc_vars>>

(***************************************************************************)
(* start_recording (lines 69-90)                                           *)
(***************************************************************************)
StartRecording ==
    /\ mpc = "ready"
    /\ started < MaxStarts
    /\ LET w == started + 1 IN
        /\ files' = [files EXCEPT ![w] =
                       [exists |-> TRUE, data |-> <<>>, writes |-> 0]]
        /\ recording_state' = [recording_state EXCEPT
                                 !.audio_path = w,
                                 !.is_recording = TRUE,
                                 !.recording_thread = w]
        /\ wpc' = [wpc EXCEPT ![w] = "open"]
        /\ started' = w
    /\ phase' = "Recording"
    /\ last_result' = [op |-> "start", label |-> "Stop",
                       status |-> "Recording in progress...", path |-> NoFile]
    /\ UNCHANGED <<lists, mpc, stop_idle, stopped, proc_vars>>

\* line 73 raises (no temporary file can be created): lines 88-90
StartRecordingFails ==
    /\ mpc = "ready"
    /\ last_result' = [op |-> "start", label |-> "Record",
                       status |-> "Error starting recording", path |-> NoFile]
    /\ UNCHANGED <<recording_state, wpc, lists, files, mpc, started, phase,
                   stop_idle, stopped, proc_vars>>

(***************************************************************************)
(* stop_recording (lines 92-114)                                           *)
(***************************************************************************)

\* line 95, then line 98 reaches the join (or finds nothing to join)
StopSetFlag ==
    /\ mpc = "ready"
    /\ recording_state' = [recording_state EXCEPT !.is_recording = FALSE]
    /\ mpc' = "join"
    /\ stop_idle' = /\ phase = "Idle"
                    /\ ~recording_state.is_recording
                    /\ \A w \in Workers : ~IsAlive(w)
    /\ phase' = "Idle"
    /\ UNCHANGED <<wpc, lists, files, started, last_result, stopped,
                   proc_vars>>

\* lines 102-111: the status and path stop_recording returns
StopResult ==
    LET f == recording_state.audio_path IN
    IF f = NoFile THEN [op |-> "stop", label |-> "Record",
                        status |-> "No recording was saved.", path |-> NoFile]
    ELSE IF files[f].exists
    THEN IF FileSize(f) > 0
         THEN [op |-> "stop", label |-> "Record",
               status |-> "Recording complete.", path |-> f]
         ELSE [op |-> "stop", label |-> "Record",
               status |-> "Recording stopped but file is empty. Please try again.",
               path |-> NoFile]
    ELSE [op |-> "stop", label |-> "Record",
          status |-> "No recording was saved.", path |-> NoFile]

StopReturn ==
    /\ last_result' = StopResult
    /\ stopped' = IF recording_state.audio_path # NoFile /\ ~stop_idle
                  THEN stopped \cup {recording_state.audio_path}
                  ELSE stopped
    /\ mpc' = "ready"
    /\ UNCHANGED <<recording_state, wpc, lists, files, started, phase,
                   stop_idle, proc_vars>>

\* line 98: recording_state["recording_thread"] and ....is_alive()
ThreadAlive ==
    IF recording_state.recording_thread = NoThread THEN FALSE
    ELSE IsAlive(recording_state.recording_thread)

\* lines 98-99: no thread, a dead thread, or join() returns as it ends
StopJoined ==
    /\ mpc = "join"
    /\ ~ThreadAlive
    /\ StopReturn

\* line 99: join(timeout=3.0) gives up while the thread is still alive (it is
\* blocked opening or reading the device, or is_recording is true again and
\* it keeps looping); time is not modelled, so this can happen whenever the
\* thread is alive
StopJoinTimeout ==
    /\ mpc = "join"
    /\ ThreadAlive
    /\ StopReturn

RecInit ==
    /\ recording_state = [is_recording |-> FALSE, audio_path |-> NoFile,
                          frames |-> 0, recording_thread |-> NoThread]
    /\ wpc = [w \in Workers |-> "unborn"]
    /\ lists = [l \in 0..MaxStarts |-> <<>>]
    /\ files = [f \in Workers |-> [exists |-> FALSE, data |-> <<>>, writes |-> 0]]
    /\ mpc = "ready"
    /\ started = 0
    /\ phase = "Idle"
    /\ stop_idle = FALSE
    /\ last_result = [op |-> "none", label |-> "Record", status |-> "", path |-> NoFile]
    /\ stopped = {}


(***************************************************************************)
(* The processing handlers.  A string is a sequence of tokens; the values  *)
(* the assistant returns are terms built from its arguments.               *)
(***************************************************************************)
MaxClock == 2        \* the clock stops advancing after this many ticks
MaxRuns == 2         \* successful speech syntheses in one behaviour
TicksPerSecond == 2  \* resolution of the modelled clock

Empty == <<>>                 \* ""
PyNone == <<"<None>">>        \* None, where a string could stand
EmptyJson == <<"{}">>         \* the literal "{}"
TempDir == "/tmp/"            \* tempfile.gettempdir()

\* json.dumps({"error": msg})
JsonError(msg) == <<"{\"error\": ">> \o msg \o <<"}">>

\* int(time.time()) at clock value `now`
IntTime(now) == now \div TicksPerSecond

\* what the handlers can be given
AudioPaths == {PyNone, <<"rec.wav">>, <<"gone.wav">>}
ExistingPaths == {<<"rec.wav">>}
Texts == {Empty, <<"fever">>, <<"Error", "on", "scan">>}
LanguageInputs ==
    {[is_tuple |-> TRUE, items |-> <<"hi", "Hindi">>],
     [is_tuple |-> FALSE, items |-> <<"hi">>]}

\* what the assistant can do: transcribe_audio raises, returns None or
\* returns a string; at most the stage fail_at of the later ones raises
Stages == <<"transcribe_audio", "analyze_text", "generate_emr_content",
            "generate_prescription", "text_to_speech_with_gtts">>
LaterStages == {Stages[i] : i \in 2..5}
TranscribeOutcomes ==
    {[kind |-> "raise", value |-> Empty], [kind |-> "none", value |-> PyNone]}
    \cup {[kind |-> "str", value |-> t] : t \in Texts}
Envs == [transcribe : TranscribeOutcomes, fail_at : LaterStages \cup {"none"}]
\* process_text never transcribes
TextEnvs == {env \in Envs : env.transcribe.kind = "raise"}

\* str(e) of the exception a stage raises
Exc(stage) == <<stage, "failed">>
NotSubscriptable == <<"'NoneType'", "object", "is", "not", "subscriptable">>

\* the results of the assistant's methods (main.HealthcareAIAssistant, an
\* external collaborator): uninterpreted terms over their arguments
AnalyzeText(text, language) == <<"notes", language>> \o text
GenerateEmrContent(text, language) == <<"emr", language>> \o text
PrescriptionText(notes, language) == <<"rx", language>> \o notes
PrescriptionExplanation(notes, language) == <<"why", language>> \o notes

Call(fn, args) == [fn |-> fn, args |-> args]

\* os.path.exists(audio_path), line 127
PathExistsAlways(path) == TRUE
PathExists(path) == path \in ExistingPaths

\* `not x` for a string or None (lines 119, 169)
Falsy(x) == x \in {Empty, PyNone}

\* line 139: transcription and not transcription.startswith("Error")
TranscriptionOkAnyText(t) == ~Falsy(t)
TranscriptionOk(t) == ~Falsy(t) /\ t[1] # "Error"

\* line 132: language_tuple[0] if isinstance(language_tuple, tuple) else "en"
AudioLanguage(language_tuple) ==
    IF language_tuple.is_tuple THEN language_tuple.items[1] ELSE "en"

\* line 176, the same expression in process_text
TextLanguageDefault(language_tuple) == "en"
TextLanguage(language_tuple) ==
    IF language_tuple.is_tuple THEN language_tuple.items[1] ELSE "en"

\* lines 162-164: the except clause of process_audio
AudioErrorKeepsAudio(e, calls) ==
    [result |-> <<<<"Error", "processing", "audio:">> \o e, Empty,
                  JsonError(e), Empty, Empty,
                  <<TempDir, "medical_notes_audio_", "0", ".mp3">>>>,
     calls |-> calls, spoke |-> FALSE]
AudioError(e, calls) ==
    [result |-> <<<<"Error", "processing", "audio:">> \o e, Empty,
                  JsonError(e), Empty, Empty, PyNone>>,
     calls |-> calls, spoke |-> FALSE]

\* lines 198-200: the except clause of process_text
TextError(text_input, e, calls) ==
    [result |-> <<text_input, <<"Error", "processing", "text:">> \o e,
                  JsonError(e), Empty, Empty, PyNone>>,
     calls |-> calls, spoke |-> FALSE]

\* lines 116-164
ProcessAudio(audio_path, language_tuple, env, now) ==
    IF Falsy(audio_path)
    THEN [result |-> <<<<"Please", "record", "or", "upload", "audio", "first.">>,
                       Empty, EmptyJson, Empty, Empty, PyNone>>,
          calls |-> <<>>, spoke |-> FALSE]
    ELSE IF ~PathExists(audio_path)
    THEN [result |-> <<<<"Audio", "file", "not", "found", "at">> \o audio_path,
                       Empty, JsonError(<<"File not found">>), Empty, Empty,
                       PyNone>>,
          calls |-> <<>>, spoke |-> FALSE]
    ELSE
    LET language == AudioLanguage(language_tuple)
        c1 == <<Call("transcribe_audio", <<audio_path, <<language>>>>)>>
        transcription == env.transcribe.value
        c2 == Append(c1, Call("analyze_text", <<transcription, <<language>>>>))
        medical_notes == AnalyzeText(transcription, language)
        c3 == Append(c2, Call("generate_emr_content",
                              <<transcription, <<language>>>>))
        emr_content == GenerateEmrContent(transcription, language)
        c4 == Append(c3, Call("generate_prescription",
                              <<medical_notes, <<language>>>>))
        prescription_text == PrescriptionText(medical_notes, language)
        prescription_explanation ==
            PrescriptionExplanation(medical_notes, language)
        tts_output_path == <<TempDir, "medical_notes_audio_",
                             ToString(IntTime(now)), ".mp3">>
        notes_and_explanation ==
            medical_notes \o <<"\n\n">> \o prescription_explanation
        c5 == Append(c4, Call("text_to_speech_with_gtts",
                              <<notes_and_explanation, tts_output_path,
                                <<language>>>>))
    IN
    IF env.transcribe.kind = "raise"
    THEN AudioError(Exc("transcribe_audio"), c1)
    ELSE IF env.transcribe.kind = "none"
    THEN AudioError(NotSubscriptable, c1)
    ELSE IF ~TranscriptionOk(transcription)
    THEN [result |-> <<transcription, Empty,
                       JsonError(<<"Transcription failed">>), Empty, Empty,
                       PyNone>>,
          calls |-> c1, spoke |-> FALSE]
    ELSE IF env.fail_at = "analyze_text"
    THEN AudioError(Exc("analyze_text"), c2)
    ELSE IF env.fail_at = "generate_emr_content"
    THEN AudioError(Exc("generate_emr_content"), c3)
    ELSE IF env.fail_at = "generate_prescription"
    THEN AudioError(Exc("generate_prescription"), c4)
    ELSE IF env.fail_at = "text_to_speech_with_gtts"
    THEN AudioError(Exc("text_to_speech_with_gtts"), c5)
    ELSE [result |-> <<transcription, medical_notes, emr_content,
                       prescription_text, prescription_explanation,
                       tts_output_path>>,
          calls |-> c5, spoke |-> TRUE]

\* lines 166-200
ProcessText(text_input, language_tuple, env, now) ==
    IF Falsy(text_input)
    THEN [result |-> <<Empty, Empty, EmptyJson, Empty, Empty, PyNone>>,
          calls |-> <<>>, spoke |-> FALSE]
    ELSE
    LET language == TextLanguage(language_tuple)
        c2 == <<Call("analyze_text", <<text_input, <<language>>>>)>>
        medical_notes == AnalyzeText(text_input, language)
        c3 == Append(c2, Call("generate_emr_content",
                              <<text_input, <<language>>>>))
        emr_content == GenerateEmrContent(text_input, language)
        c4 == Append(c3, Call("generate_prescription",
                              <<medical_notes, <<language>>>>))
        prescription_text == PrescriptionText(medical_notes, language)
        prescription_explanation ==
            PrescriptionExplanation(medical_notes, language)
        tts_output_path == <<TempDir, "text_notes_audio_",
                             ToString(IntTime(now)), ".mp3">>
        notes_and_explanation ==
            medical_notes \o <<"\n\n">> \o prescription_explanation
        c5 == Append(c4, Call("text_to_speech_with_gtts",
                              <<notes_and_explanation, tts_output_path,
                                <<language>>>>))
    IN
    IF env.fail_at = "analyze_text"
    THEN TextError(text_input, Exc("analyze_text"), c2)
    ELSE IF env.fail_at = "generate_emr_content"
    THEN TextError(text_input, Exc("generate_emr_content"), c3)
    ELSE IF env.fail_at = "generate_prescription"
    THEN TextError(text_input, Exc("generate_prescription"), c4)
    ELSE IF env.fail_at = "text_to_speech_with_gtts"
    THEN TextError(text_input, Exc("text_to_speech_with_gtts"), c5)
    ELSE [result |-> <<text_input, medical_notes, emr_content,
                       prescription_text, prescription_explanation,
                       tts_output_path>>,
          calls |-> c5, spoke |-> TRUE]

\* the speech file of a successful run is written at the returned path
Spoken(out) ==
    IF ~out.spoke THEN tts_written
    ELSE LET p == out.result[6] IN
         IF p \in DOMAIN tts_written
         THEN [tts_written EXCEPT ![p] = @ + 1]
         ELSE tts_written @@ (p :> 1)

NoRun == [handler |-> "none", at |-> 0, input |-> Empty, language_tuple |->
          [is_tuple |-> FALSE, items |-> <<"hi">>],
          env |-> [transcribe |-> [kind |-> "raise", value |-> Empty],
                   fail_at |-> "none"],
          result |-> <<>>, calls |-> <<>>, spoke |-> FALSE]

\* the user triggers process_audio (process_btn.click)
RunProcessAudio ==
    /\ \E audio_path \in AudioPaths, language_tuple \in LanguageInputs,
          env \in Envs :
         LET out == ProcessAudio(audio_path, language_tuple, env, clock) IN
         /\ out.spoke => runs < MaxRuns
         /\ runs' = IF out.spoke THEN runs + 1 ELSE runs
         /\ last_run' = [handler |-> "process_audio", at |-> clock,
                         input |-> audio_path,
                         language_tuple |-> language_tuple, env |-> env,
                         result |-> out.result, calls |-> out.calls,
                         spoke |-> out.spoke]
         /\ tts_written' = Spoken(out)
    /\ UNCHANGED <<clock, rec_vars>>

\* the user triggers process_text (process_text_btn.click)
RunProcessText ==
    /\ \E text_input \in Texts \cup {PyNone},
          language_tuple \in LanguageInputs, env \in TextEnvs :
         LET out == ProcessText(text_input, language_tuple, env, clock) IN
         /\ out.spoke => runs < MaxRuns
         /\ runs' = IF out.spoke THEN runs + 1 ELSE runs
         /\ last_run' = [handler |-> "process_text", at |-> clock,
                         input |-> text_input,
                         language_tuple |-> language_tuple, env |-> env,
                         result |-> out.result, calls |-> out.calls,
                         spoke |-> out.spoke]
         /\ tts_written' = Spoken(out)
    /\ UNCHANGED <<clock, rec_vars>>

\* time passes
Tick ==
    /\ clock < MaxClock
    /\ clock' = clock + 1
    /\ UNCHANGED <<last_run, tts_written, runs, rec_vars>>

ProcInit ==
    /\ clock = 0
    /\ last_run = NoRun
    /\ tts_written = <<>>
    /\ runs = 0

Init == RecInit /\ ProcInit

Next ==
    \/ StartRecording
    \/ StartRecordingFails
    \/ StopSetFlag
    \/ StopJoined
    \/ StopJoinTimeout
    \/ \E w \in Workers : WorkerOpen(w)
    \/ \E w \in Workers : WorkerOpenFails(w)
    \/ \E w \in Workers : WorkerSetFrames(w)
    \/ \E w \in Workers : WorkerSetFlag(w)
    \/ \E w \in Workers : WorkerCheck(w)
    \/ \E w \in Workers : WorkerRead(w)
    \/ \E w \in Workers : WorkerSave(w)

Spec == Init /\ [][Next]_vars

NextProc == RunProcessAudio \/ RunProcessText \/ Tick

SpecProc == Init /\ [][NextProc]_vars

(***************************************************************************)
(* Properties of the recording workflow                                    *)
(***************************************************************************)

\* the sessions (= threads = files) the chunks of a sequence were captured by
Captors(seq) == {seq[i].by : i \in DOMAIN seq}

\* the thread of the current session has installed its buffer (past line 44)
BufferInstalled(w) == wpc[w] \in {"set_flag", "check", "read", "save", "done"}

C2_AppendOnlyActiveFlushOnce ==
    /\ \A l \in DOMAIN lists : \A i \in DOMAIN lists[l] : lists[l][i].active
    /\ \A s \in stopped : files[s].writes = 1

\* a status that does not report a finished recording
NoRecordingStatus(status) ==
    status \in {"No recording was saved.",
                "Recording stopped but file is empty. Please try again."}

\* C3 (as claimed): a stop_recording issued while the workflow is Idle returns
\* a "no recording" status and no file path.
C3_IdleStopReturnsNothing ==
    (mpc = "ready" /\ last_result.op = "stop" /\ stop_idle)
        => /\ NoRecordingStatus(last_result.status)
           /\ last_result.path = NoFile

\* C7 (as claimed): once stop_recording has set the flag to false and no
\* start_recording follows, the flag stays false.
C7_FlagStaysFalseAfterStop ==
    phase = "Idle" => ~recording_state.is_recording

\* C8 (as claimed): at most one capture thread is alive at any time, and none
\* is alive once stop_recording has returned the workflow to Idle.
C8_AtMostOneWorkerAlive ==
    /\ Cardinality({w \in Workers : IsAlive(w)}) <= 1
    /\ (phase = "Idle" /\ mpc = "ready") => \A w \in Workers : ~IsAlive(w)

(***************************************************************************)
(* Properties of the processing handlers                                   *)
(***************************************************************************)

\* an empty value of a result field: "", None or the empty document "{}"
IsEmptyField(v) == v \in {Empty, PyNone, EmptyJson}

\* the structured-document field carries an error indicator
HasErrorKey(doc) == doc # Empty /\ doc[1] = "{\"error\": "

\* the assistant functions a run invoked, in order
Fns(calls) == [i \in DOMAIN calls |-> calls[i].fn]

\* a string that signals an error by the conventional prefix
ErrorPrefixed(t) == t \notin {Empty, PyNone} /\ t[1] = "Error"

\* process_audio got as far as transcribing, and got a string back
Transcribed(run) ==
    /\ run.handler = "process_audio"
    /\ run.calls # <<>>
    /\ run.env.transcribe.kind = "str"

\* C4 (as claimed): if transcription returns an error-indicating string,
\* process_audio returns it as the transcript with notes, EMR, prescription,
\* explanation and audio all empty, and invokes no later stage.
C4_ErrorTranscriptAllEmpty ==
    (Transcribed(last_run) /\ ErrorPrefixed(last_run.env.transcribe.value))
        => /\ last_run.result[1] = last_run.env.transcribe.value
           /\ \A i \in 2..6 : IsEmptyField(last_run.result[i])
           /\ Fns(last_run.calls) = <<"transcribe_audio">>

\* C4 (amended): if transcription returns a string starting with "Error",
\* process_audio returns it as the transcript, the document
\* {"error": "Transcription failed"} as the EMR field and empty notes,
\* prescription, explanation and audio, and invokes no later stage.
C4_ErrorTranscriptTruncates ==
    (Transcribed(last_run) /\ ErrorPrefixed(last_run.env.transcribe.value))
        => /\ last_run.result =
                <<last_run.env.transcribe.value, Empty,
                  JsonError(<<"Transcription failed">>), Empty, Empty, PyNone>>
           /\ Fns(last_run.calls) = <<"transcribe_audio">>

C4_Witness ==
    /\ Transcribed(last_run)
    /\ last_run.env.transcribe.value = <<"Error", "on", "scan">>
    /\ last_run.env.fail_at = "none"

\* C5: with missing or invalid input no assistant call is made: process_text
\* on "" returns the all-empty result, process_audio on a path that is not on
\* disk returns a "File not found" document, process_audio without a path
\* returns before any call.
C5_InvalidInputNoCalls ==
    /\ (last_run.handler = "process_text" /\ last_run.input = Empty)
          => /\ \A i \in 1..6 : IsEmptyField(last_run.result[i])
             /\ last_run.calls = <<>>
    /\ (last_run.handler = "process_audio" /\ last_run.input = PyNone)
          => last_run.calls = <<>>
    /\ (/\ last_run.handler = "process_audio"
        /\ last_run.input \notin {Empty, PyNone}
        /\ last_run.input \notin ExistingPaths)
          => /\ last_run.result[3] = JsonError(<<"File not found">>)
             /\ last_run.calls = <<>>

C5_Witness ==
    /\ last_run.handler = "process_audio"
    /\ last_run.input = <<"gone.wav">>
    /\ last_run.env.transcribe.kind = "str"

\* the position in Stages of the stage whose call raised in a run, 0 if none
StageIndex(name) == CHOOSE i \in 1..5 : Stages[i] = name
FailedStage(run) ==
    IF run.handler = "process_audio"
    THEN IF run.input \notin ExistingPaths THEN 0
         ELSE IF run.env.transcribe.kind = "raise" THEN 1
         ELSE IF run.env.transcribe.kind = "none" THEN 0
         ELSE IF run.env.transcribe.value = Empty THEN 0
         ELSE IF ErrorPrefixed(run.env.transcribe.value) THEN 0
         ELSE IF run.env.fail_at = "none" THEN 0
         ELSE StageIndex(run.env.fail_at)
    ELSE IF run.handler = "process_text"
    THEN IF run.input \in {Empty, PyNone} \/ run.env.fail_at = "none" THEN 0
         ELSE StageIndex(run.env.fail_at)
    ELSE 0

\* the stages a handler runs through stage k, and the fields stage k fills
FirstStage(run) == IF run.handler = "process_audio" THEN 1 ELSE 2
StagesThrough(run, k) ==
    [i \in 1..(k - FirstStage(run) + 1) |-> Stages[FirstStage(run) + i - 1]]
FieldsOf(k) == IF k = 4 THEN {4, 5} ELSE IF k = 5 THEN {6} ELSE {k}
FieldsFrom(k) == UNION {FieldsOf(j) : j \in k..5}

\* C6 (as claimed): if a stage's call raises, no later stage is invoked and
\* the six-field result has the fields of that stage and of all later stages
\* empty, the EMR field carrying an error indicator.
C6_FailureEmptiesLaterFields ==
    LET k == FailedStage(last_run) IN
    k # 0 =>
        /\ Fns(last_run.calls) = StagesThrough(last_run, k)
        /\ Len(last_run.result) = 6
        /\ \A i \in FieldsFrom(k) \ {3} : IsEmptyField(last_run.result[i])
        /\ HasErrorKey(last_run.result[3])

\* C6 (amended): if a stage's call raises, no later stage is invoked and the
\* six-field result has empty prescription, explanation and audio and the
\* document {"error": message} as EMR; process_audio puts "Error processing
\* audio: message" in the transcript field and leaves the notes empty,
\* process_text keeps the input as transcript and puts "Error processing
\* text: message" in the notes field.
C6_FailureTruncates ==
    LET k == FailedStage(last_run)
        e == Exc(Stages[k])
    IN
    k # 0 =>
        /\ Fns(last_run.calls) = StagesThrough(last_run, k)
        /\ last_run.result =
             IF last_run.handler = "process_audio"
             THEN <<<<"Error", "processing", "audio:">> \o e, Empty,
                    JsonError(e), Empty, Empty, PyNone>>
             ELSE <<last_run.input, <<"Error", "processing", "text:">> \o e,
                    JsonError(e), Empty, Empty, PyNone>>

C6_Witness ==
    /\ last_run.handler = "process_audio"
    /\ FailedStage(last_run) = 4
    /\ Len(last_run.calls) = 4

\* a call without the output path of text_to_speech_with_gtts
WithoutPath(call) ==
    IF call.fn = "text_to_speech_with_gtts"
    THEN [call EXCEPT !.args = <<@[1], @[3]>>]
    ELSE call
CallsModuloPath(calls) == [i \in DOMAIN calls |-> WithoutPath(calls[i])]

\* process_text given the transcript of a process_audio run, with the same
\* language, assistant and clock
AsText(run) ==
    ProcessText(run.env.transcribe.value, run.language_tuple, run.env, run.at)

\* C9 (as claimed): for every non-empty text t, language and outcome of the
\* calls, process_text(t) makes the calls process_audio makes after
\* transcribing t, with the same arguments (the speech output path, which
\* carries the handler's own file prefix, left aside), and returns the same
\* transcript, notes, EMR, prescription and explanation.
C9_TextEqualsAudioSteps ==
    (Transcribed(last_run) /\ last_run.env.transcribe.value # Empty)
        => /\ CallsModuloPath(AsText(last_run).calls)
                = CallsModuloPath(Tail(last_run.calls))
           /\ \A i \in 1..5 : AsText(last_run).result[i] = last_run.result[i]

\* C9 (amended): for every non-empty text t that does not start with "Error",
\* process_text(t) makes the calls process_audio makes after transcribing t,
\* with the same arguments except the speech output path, and returns the same
\* EMR, prescription and explanation; the same transcript and notes too when
\* no call raises.
C9_TextMatchesAudioSteps ==
    (/\ Transcribed(last_run)
     /\ last_run.env.transcribe.value # Empty
     /\ ~ErrorPrefixed(last_run.env.transcribe.value))
        => /\ CallsModuloPath(AsText(last_run).calls)
                = CallsModuloPath(Tail(last_run.calls))
           /\ \A i \in 3..5 : AsText(last_run).result[i] = last_run.result[i]
           /\ last_run.env.fail_at = "none"
                => \A i \in 1..2 :
                      AsText(last_run).result[i] = last_run.result[i]

C9_Witness ==
    /\ Transcribed(last_run)
    /\ last_run.env.transcribe.value = <<"fever">>
    /\ last_run.language_tuple.is_tuple
    /\ last_run.spoke

\* C10 (as claimed): any two successful processing runs return distinct audio
\* paths, so no speech file is written twice.
C10_SpeechPathsDistinct ==
    \A p \in DOMAIN tts_written : tts_written[p] <= 1

====
